---- MODULE Spec2Model ----
(***************************************************************************)
(* Per-frame simulation of the game loop in src/main.cpp: the boat's jump  *)
(* arc, the hazards (Spray, Pelican) held in the deque `objects`, the      *)
(* spawn scheduler, the collision test and the gameover/retry cycle.       *)
(*                                                                         *)
(* Units.                                                                  *)
(*   time        glfwGetTime() values are taken on a grid of 1/4 s: a time *)
(*               t stands for the double t * 0.25, which is exact, as are  *)
(*               the differences t - spawnTime_.                           *)
(*   horizontal  multiples of 2^-27.  Every float the code computes for a  *)
(*               horizontal position is an exact multiple, and ToFloat     *)
(*               rounds a double to the nearest float (24-bit significand, *)
(*               ties to even), so the comparisons in hit() and in         *)
(*               Pelican::update come out as the IEEE build computes them. *)
(*   vertical    multiples of 10^-6, in exact decimal arithmetic.  The     *)
(*               float values differ from these by less than 10^-5 and no  *)
(*               two compared quantities are closer than 2 * 10^-4, so     *)
(*               every vertical comparison has the result the float code   *)
(*               gives.                                                    *)
(***************************************************************************)
EXTENDS Integers, Sequences, FiniteSets

VARIABLES
    clock,      \* the value the next glfwGetTime() call is past (external)
    time,       \* double time
    boatPosY,   \* float boatPosY
    boatVelY,   \* float boatVelY
    grounded,   \* bool grounded
    objects,    \* std::deque<std::shared_ptr<Object>> objects
    interval,   \* double interval
    gameover    \* bool gameover

vars == <<clock, time, boatPosY, boatVelY, grounded, objects, interval, gameover>>

(***************************************************************************)
(* Bounds of the model.                                                    *)
(***************************************************************************)
MaxTime == 20         \* the clock is followed up to MaxTime quarter seconds
MaxStep == 2          \* a frame lasts 1..MaxStep quarter seconds
MaxSteadyTime == 70   \* the same under a steady frame rate (SpecSteady)

(***************************************************************************)
(* Program constants (lines 23-29), in the units above.                    *)
(***************************************************************************)
SPRAY_WIDTH   == 53687092    \* 0.4f  = 13421773 * 2^-25
PELICAN_WIDTH == 26843546    \* 0.2f  = 13421773 * 2^-26
WAVE_SPEED    == 13421773    \* 0.4f per second = 13421773 * 2^-27 per 1/4 s
BOAT_POS_X    == 13421773    \* 0.1f  = 13421773 * 2^-27
BOAT_WIDTH    == 26843546    \* 0.2f
SEA_LEVEL     == 800000      \* 0.8f
GRAVITY       == 900         \* 0.0009f

\* std::uniform_real_distribution<double> intervalDist(1.0, 3.0): the samples
\* on the grid are MinInterval .. MaxInterval - 1 quarter seconds.
MinInterval == 4
MaxInterval == 12
Intervals == {MinInterval, MaxInterval - 1}

Kinds == {"Spray", "Pelican"}

(***************************************************************************)
(* Conversion of a double (an integer multiple of 2^-27) to float.         *)
(***************************************************************************)
RECURSIVE Ulp(_)
Ulp(a) == IF a < 16777216 THEN 1 ELSE 2 * Ulp(a \div 2)

ToFloat(v) ==
    LET a  == IF v < 0 THEN -v ELSE v
        u  == Ulp(a)
        q  == a \div u
        r  == a % u
        up == (2 * r > u) \/ (2 * r = u /\ q % 2 = 1)
        m  == (IF up THEN q + 1 ELSE q) * u
    IN  IF v < 0 THEN -m ELSE m

\* 10^6 * cos(2 * e * 0.25) for e = 0 .. 80, index e + 1.
CosTable == <<
    1000000, 877583, 540302, 70737, -416147, -801144, -989992, -936457,
    -653644, -210796, 283662, 708670, 960170, 976588, 753902, 346635,
    -145500, -602012, -911130, -997172, -839072, -475537, 4426, 483305,
    843854, 997798, 907447, 594921, 136737, -354924, -759688, -978453,
    -957659, -702397, -275163, 219440, 660317, 939525, 988705, 795815,
    408082, -79564, -547729, -881792, -999961, -873305, -532833, -61905,
    424179, 806409, 991203, 933315, 646919, 202135, -292139, -714887,
    -962606, -974645, -748058, -338319, 154251, 609056, 914742, 996468,
    834223, 467732, -13277, -491035, -848570, -998346, -903692, -587783,
    -127964, 363185, 765414, 980243, 955074, 696069, 266643, -228067,
    -666938 >>

(***************************************************************************)
(* Object and its two subclasses.  An object is the record of its fields;  *)
(* animIndex exists in Pelican only and stays 0 in a Spray.                *)
(***************************************************************************)
\* Object(spawnTime): spawnTime_ and visible_ are set, pos_ is left to the
\* first update, which the frame that constructs the object always runs.
NewObject(kind, t) ==
    [kind |-> kind, spawnTime |-> t, x |-> 0, y |-> 0, visible |-> TRUE,
     animIndex |-> 0]

\* Spray::update
SprayUpdate(o, t) ==
    LET e == t - o.spawnTime
    IN  [o EXCEPT !.x = ToFloat(120795952 - WAVE_SPEED * e),
                  !.y = 750000 + (250 * CosTable[e + 1]) \div 1000,
                  !.visible = (t * 250000 <= o.spawnTime * 250000 + 3141593)]

\* Pelican::update with the comparison of line 330 turned round.
PelicanUpdateFlipped(o, t) ==
    LET e == t - o.spawnTime
        x == ToFloat(134217728 - 26843546 * e)
    IN  [o EXCEPT !.x = x,
                  !.y = 50000,
                  !.visible = (x <= -PELICAN_WIDTH),
                  !.animIndex = e % 2]

\* Pelican::update moving at WAVE_SPEED, the speed of a Spray.
PelicanUpdateWaveSpeed(o, t) ==
    LET e == t - o.spawnTime
        x == ToFloat(134217728 - WAVE_SPEED * e)
    IN  [o EXCEPT !.x = x,
                  !.y = 50000,
                  !.visible = (x >= -PELICAN_WIDTH),
                  !.animIndex = e % 2]

\* Pelican::update
PelicanUpdate(o, t) ==
    LET e == t - o.spawnTime
        x == ToFloat(134217728 - 26843546 * e)
    IN  [o EXCEPT !.x = x,
                  !.y = 50000,
                  !.visible = (x >= -PELICAN_WIDTH),
                  !.animIndex = e % 2]

update(o, t) ==
    IF o.kind = "Spray" THEN SprayUpdate(o, t) ELSE PelicanUpdate(o, t)

\* Spray::hit without the second operand of line 317.
SprayHitNoTrailingEdge(o, y) ==
    /\ ToFloat(BOAT_POS_X + BOAT_WIDTH) > o.x + SPRAY_WIDTH \div 2
    /\ y > o.y

\* Spray::hit
SprayHit(o, y) ==
    /\ ToFloat(BOAT_POS_X + BOAT_WIDTH) > o.x + SPRAY_WIDTH \div 2
    /\ BOAT_POS_X < ToFloat(o.x + SPRAY_WIDTH)
    /\ y > o.y

\* Pelican::hit
PelicanHit(o, y) ==
    /\ ToFloat(BOAT_POS_X + BOAT_WIDTH) > o.x
    /\ BOAT_POS_X < ToFloat(o.x + PELICAN_WIDTH)
    /\ y - 200000 < o.y + 200000

hit(o, y) ==
    IF o.kind = "Spray" THEN SprayHit(o, y) ELSE PelicanHit(o, y)

(***************************************************************************)
(* The body of the main loop, as a function of the state and of what the   *)
(* iteration reads: the two keys, the clock and the two random draws.      *)
(***************************************************************************)
St == [time |-> time, boatPosY |-> boatPosY, boatVelY |-> boatVelY,
       grounded |-> grounded, objects |-> objects, interval |-> interval,
       gameover |-> gameover]

\* GameOverBranch without objects.clear() (line 405).
GameOverBranchKeepObjects(s, retryKeyPressed) ==
    IF retryKeyPressed
    THEN [s EXCEPT !.gameover = FALSE,
                   !.boatPosY = SEA_LEVEL, !.boatVelY = 0, !.grounded = TRUE]
    ELSE s

\* lines 402-409
GameOverBranch(s, retryKeyPressed) ==
    IF retryKeyPressed
    THEN [s EXCEPT !.gameover = FALSE, !.objects = << >>,
                   !.boatPosY = SEA_LEVEL, !.boatVelY = 0, !.grounded = TRUE]
    ELSE s

\* Physics without grounded = false (line 417).
PhysicsKeepGrounded(s, jumpKeyPressed) ==
    IF s.grounded
    THEN IF jumpKeyPressed
         THEN [s EXCEPT !.boatVelY = s.boatVelY - 30000]
         ELSE s
    ELSE IF s.boatPosY > SEA_LEVEL
         THEN [s EXCEPT !.grounded = TRUE, !.boatPosY = SEA_LEVEL, !.boatVelY = 0]
         ELSE [s EXCEPT !.boatPosY = s.boatPosY + s.boatVelY,
                        !.boatVelY = s.boatVelY + GRAVITY]

\* Physics with the two statements of lines 424-425 in the other order.
PhysicsGravityFirst(s, jumpKeyPressed) ==
    IF s.grounded
    THEN IF jumpKeyPressed
         THEN [s EXCEPT !.boatVelY = s.boatVelY - 30000, !.grounded = FALSE]
         ELSE s
    ELSE IF s.boatPosY > SEA_LEVEL
         THEN [s EXCEPT !.grounded = TRUE, !.boatPosY = SEA_LEVEL, !.boatVelY = 0]
         ELSE [s EXCEPT !.boatPosY = s.boatPosY + s.boatVelY + GRAVITY,
                        !.boatVelY = s.boatVelY + GRAVITY]

\* Physics with the jump of lines 415-418 outside the test of grounded.
PhysicsAirJump(s, jumpKeyPressed) ==
    LET j == IF jumpKeyPressed
             THEN [s EXCEPT !.boatVelY = s.boatVelY - 30000, !.grounded = FALSE]
             ELSE s
    IN  IF s.grounded
        THEN j
        ELSE IF j.boatPosY > SEA_LEVEL
             THEN [j EXCEPT !.grounded = TRUE, !.boatPosY = SEA_LEVEL, !.boatVelY = 0]
             ELSE [j EXCEPT !.boatPosY = j.boatPosY + j.boatVelY,
                            !.boatVelY = j.boatVelY + GRAVITY]

\* Physics with >= for > in the test of line 419.
PhysicsGroundInclusive(s, jumpKeyPressed) ==
    IF s.grounded
    THEN IF jumpKeyPressed
         THEN [s EXCEPT !.boatVelY = s.boatVelY - 30000, !.grounded = FALSE]
         ELSE s
    ELSE IF s.boatPosY >= SEA_LEVEL
         THEN [s EXCEPT !.grounded = TRUE, !.boatPosY = SEA_LEVEL, !.boatVelY = 0]
         ELSE [s EXCEPT !.boatPosY = s.boatPosY + s.boatVelY,
                        !.boatVelY = s.boatVelY + GRAVITY]

\* lines 413-426
Physics(s, jumpKeyPressed) ==
    IF s.grounded
    THEN IF jumpKeyPressed
         THEN [s EXCEPT !.boatVelY = s.boatVelY - 30000, !.grounded = FALSE]
         ELSE s
    ELSE IF s.boatPosY > SEA_LEVEL
         THEN [s EXCEPT !.grounded = TRUE, !.boatPosY = SEA_LEVEL, !.boatVelY = 0]
         ELSE [s EXCEPT !.boatPosY = s.boatPosY + s.boatVelY,
                        !.boatVelY = s.boatVelY + GRAVITY]

\* The for loop of lines 428-433 testing the front of the deque only.
HitAnyFrontOnly(objs, y) ==
    objs # << >> /\ hit(Head(objs), y)

\* The for loop of lines 428-433: the deque is scanned from the front and
\* the scan stops at the first hazard that hits.
RECURSIVE HitAny(_, _)
HitAny(objs, y) ==
    IF objs = << >>
    THEN FALSE
    ELSE IF hit(Head(objs), y) THEN TRUE ELSE HitAny(Tail(objs), y)

\* lines 428-433
Collide(s) ==
    IF HitAny(s.objects, s.boatPosY)
    THEN [s EXCEPT !.gameover = TRUE]
    ELSE s

\* The while loop of lines 435-437 left out.
CullSkipped(s) == s

\* lines 435-437
RECURSIVE PopInvisible(_)
PopInvisible(objs) ==
    IF objs # << >> /\ ~Head(objs).visible
    THEN PopInvisible(Tail(objs))
    ELSE objs

\* lines 435-437
Cull(s) == [s EXCEPT !.objects = PopInvisible(s.objects)]

\* SpawnDue with >= for > (line 439).
SpawnDueInclusive(s) ==
    \/ s.objects = << >>
    \/ s.time >= s.objects[Len(s.objects)].spawnTime + s.interval

\* SpawnDue without the + interval of line 439.
SpawnDueNoInterval(s) ==
    \/ s.objects = << >>
    \/ s.time > s.objects[Len(s.objects)].spawnTime

\* line 439
SpawnDue(s) ==
    \/ s.objects = << >>
    \/ s.time > s.objects[Len(s.objects)].spawnTime + s.interval

\* Spawn with emplace_front for emplace_back (lines 441, 443).
SpawnFront(s, kind, gap) ==
    IF SpawnDue(s)
    THEN [s EXCEPT !.objects = <<NewObject(kind, s.time)>> \o s.objects,
                   !.interval = gap]
    ELSE s

\* Spawn without the new sample of interval (line 445).
SpawnKeepInterval(s, kind, gap) ==
    IF SpawnDue(s)
    THEN [s EXCEPT !.objects = Append(s.objects, NewObject(kind, s.time))]
    ELSE s

\* lines 439-446
Spawn(s, kind, gap) ==
    IF SpawnDue(s)
    THEN [s EXCEPT !.objects = Append(s.objects, NewObject(kind, s.time)),
                   !.interval = gap]
    ELSE s

\* lines 448-450
UpdateAll(s) ==
    [s EXCEPT !.objects = [i \in 1 .. Len(s.objects) |-> update(s.objects[i], s.time)]]

\* lines 411-437
BeforeSpawn(s, jumpKeyPressed, now) ==
    Cull(Collide(Physics([s EXCEPT !.time = now], jumpKeyPressed)))

\* RunningBranch with lines 435-450 in the else of the collision test.
RunningBranchSkipOnHit(s, jumpKeyPressed, now, kind, gap) ==
    LET c == Collide(Physics([s EXCEPT !.time = now], jumpKeyPressed))
    IN  IF c.gameover THEN c ELSE UpdateAll(Spawn(Cull(c), kind, gap))

\* RunningBranch with the update loop (lines 448-450) ahead of the collision
\* test as well.
RunningBranchUpdateFirst(s, jumpKeyPressed, now, kind, gap) ==
    UpdateAll(Spawn(Cull(Collide(UpdateAll(
        Physics([s EXCEPT !.time = now], jumpKeyPressed)))), kind, gap))

\* RunningBranch with the update loop (lines 448-450) ahead of the spawn.
RunningBranchUpdateBeforeSpawn(s, jumpKeyPressed, now, kind, gap) ==
    Spawn(UpdateAll(BeforeSpawn(s, jumpKeyPressed, now)), kind, gap)

\* lines 411-450
RunningBranch(s, jumpKeyPressed, now, kind, gap) ==
    UpdateAll(Spawn(BeforeSpawn(s, jumpKeyPressed, now), kind, gap))

\* LoopBody with time = glfwGetTime() (line 411) ahead of the if.
LoopBodyClockFirst(s, retryKeyPressed, jumpKeyPressed, now, kind, gap) ==
    IF s.gameover
    THEN GameOverBranch([s EXCEPT !.time = now], retryKeyPressed)
    ELSE RunningBranch(s, jumpKeyPressed, now, kind, gap)

\* LoopBody with the retry key handled whatever gameover is.
LoopBodyRetryAnytime(s, retryKeyPressed, jumpKeyPressed, now, kind, gap) ==
    IF s.gameover \/ retryKeyPressed
    THEN GameOverBranch(s, retryKeyPressed)
    ELSE RunningBranch(s, jumpKeyPressed, now, kind, gap)

\* lines 401-451
LoopBody(s, retryKeyPressed, jumpKeyPressed, now, kind, gap) ==
    IF s.gameover
    THEN GameOverBranch(s, retryKeyPressed)
    ELSE RunningBranch(s, jumpKeyPressed, now, kind, gap)

Assign(s) ==
    /\ time' = s.time
    /\ boatPosY' = s.boatPosY
    /\ boatVelY' = s.boatVelY
    /\ grounded' = s.grounded
    /\ objects' = s.objects
    /\ interval' = s.interval
    /\ gameover' = s.gameover

\* The clock values the next glfwGetTime() call (line 411) can return: the
\* frame lasts 1..MaxStep quarter seconds.
Nows == {n \in (clock + 1) .. (clock + MaxStep) : n <= MaxTime}

\* The same under a steady frame rate of one frame per quarter second.
SteadyNows == {n \in {clock + 1} : n <= MaxSteadyTime}

\* lines 385-399
Init ==
    /\ clock = 0
    /\ time = 0
    /\ boatPosY = SEA_LEVEL
    /\ boatVelY = 0
    /\ grounded = TRUE
    /\ objects = << >>
    /\ interval = 0
    /\ gameover = FALSE

\* The random draws an iteration makes: typeDist and intervalDist are sampled
\* only inside the if of line 439.
Draws(s, jumpKeyPressed, now) ==
    IF ~s.gameover /\ SpawnDue(BeforeSpawn(s, jumpKeyPressed, now))
    THEN Kinds \X Intervals
    ELSE {<<"Spray", MinInterval>>}

\* One iteration of the loop (lines 400-476) entered with gameover set; the
\* jump key is not read.
GameOverFrame(N) ==
    /\ gameover
    /\ \E now \in N, retryKeyPressed \in BOOLEAN :
          /\ clock' = now
          /\ Assign(LoopBody(St, retryKeyPressed, FALSE, now, "Spray", MinInterval))

\* One iteration of the loop (lines 400-476) entered with gameover clear.
RunningFrame(N) ==
    /\ ~gameover
    /\ \E now \in N, retryKeyPressed \in BOOLEAN, jumpKeyPressed \in BOOLEAN :
       \E d \in Draws(St, jumpKeyPressed, now) :
          /\ clock' = now
          /\ Assign(LoopBody(St, retryKeyPressed, jumpKeyPressed, now, d[1], d[2]))

Next == GameOverFrame(Nows) \/ RunningFrame(Nows)

Spec == Init /\ [][Next]_vars

SteadyNext == GameOverFrame(SteadyNows) \/ RunningFrame(SteadyNows)

SpecSteady == Init /\ [][SteadyNext]_vars

(***************************************************************************)
(* Properties.                                                             *)
(***************************************************************************)
\* The registry that lines 435-450 leave at clock value now, for the draws
\* kind and gap, when they start from the registry and interval of s.
Lifecycle(s, now, kind, gap) ==
    UpdateAll(Spawn(Cull([s EXCEPT !.time = now]), kind, gap))

\* A frame that finds a hit: it is entered with gameover clear and sets it.
HitFrame == ~gameover /\ gameover'

\* C1 as stated: in a Running frame in which the collision test finds a hit,
\* cull, spawn and update are not run: the registry, with every hazard's
\* position and visibility, is at the end of the frame what it was at its
\* start.
C1_HitFrameLeavesRegistry ==
    [][HitFrame => objects' = objects]_vars

\* C1 as amended: in a Running frame in which the collision test finds a hit,
\* gameover is set and cull, spawn and update run all the same: the registry
\* at the end of the frame is the one at its start after the front cull, the
\* spawn if one is due, and the update of every hazard to the frame's clock
\* value.
C1_HitFrameRunsLifecycle ==
    [][HitFrame =>
        \E kind \in Kinds, gap \in Intervals :
            LET r == Lifecycle(St, time', kind, gap)
            IN  objects' = r.objects /\ interval' = r.interval]_vars

\* A hit frame has spawned a hazard and moved an older one: gameover froze
\* time at the clock value of the hit frame.
C1_Witness ==
    /\ gameover
    /\ Len(objects) >= 2
    /\ objects[Len(objects)].spawnTime = time
    /\ objects[1].spawnTime < time

\* C2: whenever the boat is grounded, its velocity is 0 and its position is
\* SEA_LEVEL.
C2_GroundedAtRest ==
    grounded => (boatVelY = 0 /\ boatPosY = SEA_LEVEL)

\* The boat is at the end of its arc, past SEA_LEVEL, and a further Running
\* frame, which lands it, can be taken.
C2_Witness ==
    /\ ~gameover
    /\ ~grounded
    /\ boatPosY > SEA_LEVEL
    /\ clock < MaxSteadyTime

\* C3: a frame entered with gameover set that does not accept a retry (it
\* leaves gameover set) changes none of time, the boat, the registry with
\* every hazard's fields, and the sampled interval, whatever clock does.
C3_GameOverFrozen ==
    [][(gameover /\ gameover') =>
        UNCHANGED <<time, boatPosY, boatVelY, grounded, objects, interval>>]_vars

\* Frames have gone by with gameover set: the clock has moved on by more
\* than one frame while time stands still, with hazards and an airborne boat.
C3_Witness ==
    /\ gameover
    /\ clock > time + MaxStep
    /\ objects # << >>
    /\ ~grounded

\* C4: the frame that accepts a retry (entered with gameover set, it clears
\* it) leaves the registry empty and the boat grounded at SEA_LEVEL with
\* velocity 0.
C4_RetryResets ==
    [][(gameover /\ ~gameover') =>
        (objects' = << >> /\ grounded' /\ boatPosY' = SEA_LEVEL /\ boatVelY' = 0)]_vars

\* The state a retry leaves: a Running frame always leaves a hazard in the
\* registry, so an empty registry after the start is the work of a retry.
C4_Witness ==
    /\ ~gameover
    /\ objects = << >>
    /\ clock > 0
    /\ grounded

\* C5: in a Running state the retry key changes nothing: for every jump key,
\* clock value and pair of draws, the frame with the retry key down ends in
\* the state the frame with the retry key up ends in.
C5_RetryIgnoredWhileRunning ==
    ~gameover =>
        \A now \in Nows, jumpKeyPressed \in BOOLEAN, kind \in Kinds, gap \in Intervals :
            LoopBody(St, TRUE, jumpKeyPressed, now, kind, gap)
                = LoopBody(St, FALSE, jumpKeyPressed, now, kind, gap)

\* A Running state that a reset would change, with a frame still to come.
C5_Witness ==
    /\ ~gameover
    /\ ~grounded
    /\ Len(objects) >= 2
    /\ Nows # {}

\* The number of hazards the front cull removes from objs.
LeadingInvisible(objs) ==
    CHOOSE n \in 0 .. Len(objs) :
        /\ \A i \in 1 .. n : ~objs[i].visible
        /\ n = Len(objs) \/ objs[n + 1].visible

\* What a hazard is, apart from the fields update derives.
Ident(o) == <<o.kind, o.spawnTime>>

\* C6 as stated: of two hazards in the registry, of any variants, the one
\* spawned first is invisible whenever the other is: no invisible hazard
\* stands behind a visible one.
C6_AnyVariantMonotone ==
    \A i, j \in 1 .. Len(objects) :
        (i < j /\ ~objects[j].visible) => ~objects[i].visible

\* C6 as amended: of two hazards of the same variant in the registry, the one
\* spawned first is invisible whenever the other is.
C6_SameVariantMonotone ==
    \A i, j \in 1 .. Len(objects) :
        (i < j /\ objects[i].kind = objects[j].kind /\ ~objects[j].visible)
            => ~objects[i].visible

\* Two hazards of one variant, the older one invisible and the younger one
\* still visible.
C6_Witness ==
    \E i, j \in 1 .. Len(objects) :
        /\ i < j
        /\ objects[i].kind = objects[j].kind
        /\ ~objects[i].visible
        /\ objects[j].visible

\* C7: the registry is in strictly increasing order of spawnTime.
C7_StrictlyIncreasingSpawnTime ==
    \A i, j \in 1 .. Len(objects) :
        i < j => objects[i].spawnTime < objects[j].spawnTime

\* Three hazards are in the registry, the program's first ones gone from it
\* (culled, or cleared by a retry).
C7_Witness ==
    /\ Len(objects) >= 3
    /\ objects[1].spawnTime > MinInterval + MaxStep

\* C8: a Running frame appends exactly one hazard, with spawnTime the
\* frame's clock value, behind what the front cull has left, if the cull has
\* left nothing or the clock value is greater than the last hazard's
\* spawnTime plus interval; otherwise it appends none.
C8_SpawnRule ==
    [][~gameover =>
        LET n    == LeadingInvisible(objects)
            kept == Len(objects) - n
            due  == \/ kept = 0
                    \/ time' > objects[Len(objects)].spawnTime + interval
        IN  /\ Len(objects') = IF due THEN kept + 1 ELSE kept
            /\ \A i \in 1 .. kept : Ident(objects'[i]) = Ident(objects[n + i])
            /\ due => objects'[kept + 1].spawnTime = time']_vars

\* A Running frame has appended a hazard behind two older ones.
C8_Witness ==
    /\ ~gameover
    /\ Len(objects) >= 3
    /\ objects[Len(objects)].spawnTime = time

\* The hazard the first frame of the program spawns: that frame reads a
\* clock value of at most MaxStep, and no later spawn is that early.
FirstHazard(o) == o.spawnTime <= MaxStep

\* A Running frame that starts with the first hazard as the only spawn so
\* far and spawns the second.
SecondSpawn ==
    /\ ~gameover
    /\ Len(objects) = 1
    /\ FirstHazard(objects[1])
    /\ objects'[Len(objects')].spawnTime = time'

\* The first frame of the program spawns exactly one hazard, at its clock
\* value, and until the second spawn no other hazard is in the registry.
FirstSpawn ==
    /\ clock = 0 => (Len(objects') = 1 /\ objects'[1].spawnTime = time')
    /\ (~gameover /\ Len(objects) = 1 /\ FirstHazard(objects[1])) =>
           \A i \in 1 .. Len(objects') :
               objects'[i].spawnTime \in {objects[1].spawnTime, time'}

\* C9 as stated: the first frame spawns exactly one hazard and the next
\* spawn comes more than 1.0 s and at most 3.0 s after it.
C9_SecondSpawnWithinThreeSeconds ==
    [][/\ FirstSpawn
       /\ SecondSpawn =>
              /\ time' - objects[1].spawnTime > MinInterval
              /\ time' - objects[1].spawnTime <= MaxInterval]_vars

\* C9 as amended: the first frame spawns exactly one hazard and the next
\* spawn comes more than 1.0 s after it, in the first frame after a frame
\* that was less than 3.0 s after it.
C9_SecondSpawnAfterGap ==
    [][/\ FirstSpawn
       /\ SecondSpawn =>
              /\ time' - objects[1].spawnTime > MinInterval
              /\ time - objects[1].spawnTime < MaxInterval]_vars

\* The second hazard was spawned more than 3.0 s after the first.
C9_Witness ==
    /\ Len(objects) = 2
    /\ FirstHazard(objects[1])
    /\ objects[2].spawnTime - objects[1].spawnTime > MaxInterval

\* C10 as stated: the collision test of a Running frame is made on the
\* hazards' positions derived at the frame's own clock value.
C10_CollisionAtFrameClock ==
    [][~gameover =>
        (gameover' <=>
            \E i \in 1 .. Len(objects) :
                hit(update(objects[i], time'), boatPosY'))]_vars

\* C10 as amended: the collision test and the front cull of a Running frame
\* are made on the hazards' positions and visibility derived at the clock
\* value of the Running frame before it.
C10_CollisionAtPreviousClock ==
    [][~gameover =>
        LET stale == [i \in 1 .. Len(objects) |-> update(objects[i], time)]
            n     == LeadingInvisible(stale)
            kept  == Len(objects) - n
        IN  /\ gameover' <=>
                \E i \in 1 .. Len(objects) : hit(stale[i], boatPosY')
            /\ Len(objects') \in {kept, kept + 1}
            /\ \A i \in 1 .. kept : Ident(objects'[i]) = Ident(objects[n + i])]_vars

\* A Running frame has ended with gameover clear and the boat inside a
\* hazard as derived at that frame's clock value.
C10_Witness ==
    /\ ~gameover
    /\ \E i \in 1 .. Len(objects) : hit(objects[i], boatPosY)

\* C11 as stated, its last part: no frame ends with the boat's position
\* greater than SEA_LEVEL.
C11_NeverPastSeaLevel ==
    boatPosY <= SEA_LEVEL

\* C11 as amended: a jump leaves SEA_LEVEL with velocity 0 for an arc on
\* which each frame adds the velocity to the position and GRAVITY to the
\* velocity, so that the position strictly decreases while the velocity is
\* negative and strictly increases from then on; the frame whose step takes
\* the position past SEA_LEVEL ends airborne there, and the frame after it
\* sets grounded, the position to SEA_LEVEL exactly and the velocity to 0.
C11_JumpArc ==
    [][~gameover =>
        /\ (grounded /\ ~grounded') =>
               /\ boatPosY' = SEA_LEVEL
               /\ boatVelY' < 0
        /\ (~grounded /\ boatPosY <= SEA_LEVEL) =>
               /\ ~grounded'
               /\ boatPosY' = boatPosY + boatVelY
               /\ boatVelY' = boatVelY + GRAVITY
               /\ boatVelY < 0 => boatPosY' < boatPosY
               /\ boatVelY > 0 => boatPosY' > boatPosY
               /\ boatVelY # 0
        /\ (~grounded /\ boatPosY > SEA_LEVEL) =>
               /\ grounded'
               /\ boatPosY' = SEA_LEVEL
               /\ boatVelY' = 0
        /\ (~grounded /\ grounded') => boatPosY > SEA_LEVEL]_vars

\* The frame that took the boat past SEA_LEVEL has ended: the boat is
\* airborne, below the sea level and falling, and the frame that grounds it
\* can follow.
C11_Witness ==
    /\ ~gameover
    /\ ~grounded
    /\ boatPosY > SEA_LEVEL
    /\ boatVelY > 0
    /\ boatPosY - boatVelY + GRAVITY <= SEA_LEVEL
    /\ SteadyNows # {}

\* Seconds since the hazard was constructed, in quarters, at the clock value
\* of the last Running frame.
Elapsed(o) == time - o.spawnTime

\* C12 as stated, its two scenario points: 1.25 s after its spawn a Pelican
\* is at horizontal position 0 and visible, and 1.5 s after its spawn it is
\* at -PELICAN_WIDTH and not visible.
C12_PelicanScenarioExact ==
    \A i \in 1..Len(objects) :
        LET o == objects[i]
        IN  o.kind = "Pelican" =>
                /\ Elapsed(o) = 5 => (o.x = 0 /\ o.visible)
                /\ Elapsed(o) = 6 => (o.x = -PELICAN_WIDTH /\ ~o.visible)

\* C12 as amended: up to 1.5 s after its spawn the horizontal position of a
\* Pelican is 1.0 - 0.8 * t within 8 * 2^-27 (the rounding of 0.8 and of the
\* result to float); the Pelican is visible exactly while that position is
\* at least -PELICAN_WIDTH; at 1.25 s it is just left of 0 and visible, and
\* at 1.5 s it is strictly left of -PELICAN_WIDTH, hence not visible.
C12_PelicanScenarioRounded ==
    \A i \in 1..Len(objects) :
        LET o == objects[i]
            e == Elapsed(o)
            d == 5 * o.x - (671088640 - 134217728 * e)
        IN  (o.kind = "Pelican" /\ e <= 6) =>
                /\ d <= 40 /\ -d <= 40
                /\ o.visible <=> (o.x >= -PELICAN_WIDTH)
                /\ e < 6 => o.visible
                /\ e = 5 => (o.x < 0 /\ o.x >= -3)
                /\ e = 6 => (o.x < -PELICAN_WIDTH /\ ~o.visible)

\* A Pelican has been updated 1.5 s after its spawn.
C12_Witness ==
    \E i \in 1..Len(objects) :
        /\ objects[i].kind = "Pelican"
        /\ Elapsed(objects[i]) = 6
        /\ ~objects[i].visible

\* C13: visibility is one-way. A hazard of either variant that an update has
\* left not visible is left not visible by an update at every later clock
\* value.
C13_VisibilityOneWay ==
    \A i \in 1..Len(objects) :
        ~objects[i].visible =>
            \A t \in time..MaxSteadyTime : ~update(objects[i], t).visible

\* The session is running and a hazard that was not visible at the end of the
\* frame before has been updated again.
C13_Witness ==
    /\ ~gameover
    /\ \E i \in 1..Len(objects) :
           /\ objects[i].kind = "Pelican"
           /\ ~objects[i].visible
           /\ Elapsed(objects[i]) >= 6 + MaxStep

Reverse(objs) == [i \in 1..Len(objs) |-> objs[Len(objs) + 1 - i]]

\* C14: a Running frame enters GameOver if and only if hit, given the
\* vertical position the frame has computed for the boat, is true of at
\* least one hazard the registry holds at the start of the frame; an empty
\* registry never does, and scanning the hazards in the opposite order gives
\* the same outcome.
C14_GameOverIffSomeHit ==
    [][~gameover =>
        /\ gameover' <=>
               \E i \in 1..Len(objects) : hit(objects[i], boatPosY')
        /\ objects = << >> => ~gameover'
        /\ gameover' <=> HitAny(Reverse(objects), boatPosY')]_vars

\* A hit has ended the session with the boat too high for any Spray to hit
\* it while the front of the registry is a Spray: the hazard that hit is a
\* Pelican further back in the registry.
C14_Witness ==
    /\ gameover
    /\ objects # << >>
    /\ objects[1].kind = "Spray"
    /\ objects[1].visible
    /\ boatPosY < 450000

Boat(s) == <<s.boatPosY, s.boatVelY, s.grounded>>

\* C15: a jump request while the boat is airborne is ignored. From every
\* airborne state of a running session, the boat's position, velocity and
\* grounded flag after the frame are the same whether the jump key is pressed
\* or not, the frame that grounds the boat included.
C15_AirborneJumpIgnored ==
    (~gameover /\ ~grounded) =>
        \A now \in SteadyNows :
        \A d \in Draws(St, TRUE, now) \cup Draws(St, FALSE, now) :
            Boat(RunningBranch(St, TRUE, now, d[1], d[2]))
                = Boat(RunningBranch(St, FALSE, now, d[1], d[2]))

\* The boat is airborne past SEA_LEVEL in a running session and the frame
\* that grounds it can follow.
C15_Witness ==
    /\ ~gameover
    /\ ~grounded
    /\ boatPosY > SEA_LEVEL
    /\ objects # << >>
    /\ SteadyNows # {}

Last(objs) == objs[Len(objs)]

\* A Running frame of a session that has spawned before spawns again: the
\* registry a Running frame leaves is never empty, so the back of the
\* registry at the start of the frame is the previous spawn of the session.
NextSpawn ==
    /\ ~gameover
    /\ objects # << >>
    /\ objects' # << >>
    /\ Last(objects').spawnTime > Last(objects).spawnTime

\* C16 as stated: the time between two consecutive spawns of one session is
\* strictly greater than the gap sampled at the earlier of the two.
C16_SpawnAfterSampledGap ==
    [][NextSpawn =>
          Last(objects').spawnTime - Last(objects).spawnTime > interval]_vars

\* C16 as amended: the time between two consecutive spawns of one session is
\* strictly greater than the gap sampled at the earlier of the two unless
\* the front cull of the later frame has emptied the registry, every hazard
\* in it being out of view; the later spawn then happens in that frame,
\* however short the time since the earlier one.
C16_SpawnAfterSampledGapOrEmptied ==
    [][NextSpawn =>
          /\ Last(objects').spawnTime = time'
          /\ \/ time' - Last(objects).spawnTime > interval
             \/ /\ \A i \in 1..Len(objects) : ~objects[i].visible
                /\ Len(objects') = 1]_vars

\* The only hazard of a running session is a Pelican that is out of view,
\* and every clock value the next frame can read is within the sampled gap
\* of its spawn.
C16_Witness ==
    /\ ~gameover
    /\ Len(objects) = 1
    /\ objects[1].kind = "Pelican"
    /\ ~objects[1].visible
    /\ Nows # {}
    /\ \A now \in Nows : now <= objects[1].spawnTime + interval

\* Vertical positions of the boat: the top of the screen, where the vertical
\* test of Pelican::hit passes, SEA_LEVEL, and a position below the screen,
\* where the vertical test of Spray::hit passes. Both tests are monotone in
\* the position, so no other position hits where none of these does.
Heights == {0, SEA_LEVEL, 2000000}

\* C17: a hazard that is not visible cannot hit. For every hazard of the
\* registry and every clock value from the frame's on, if update leaves the
\* hazard not visible then hit is false for every vertical position of the
\* boat.
C17_InvisibleNeverHits ==
    \A i \in 1..Len(objects) :
    \A t \in time..MaxTime :
        LET o == update(objects[i], t)
        IN  ~o.visible => \A y \in Heights \cup {boatPosY} : ~hit(o, y)

\* A running session holds a Pelican that is out of view while the boat is
\* at the height at which a Pelican hits.
C17_Witness ==
    /\ ~gameover
    /\ boatPosY - 200000 < 50000 + 200000
    /\ \E i \in 1..Len(objects) :
           objects[i].kind = "Pelican" /\ ~objects[i].visible

\* The hazard is older than the pi seconds a Spray stays in view, which is
\* more than the 1.5 s a Pelican does.
OutOfDate(o, t) == (t - o.spawnTime) * 250000 > 3141593

\* C18: while the session is running every hazard is removed after a bounded
\* time, and the registry stays bounded. A Running frame removes every hazard
\* that it finds out of view with nothing in view ahead of it; every hazard
\* it leaves that is older than pi seconds is out of view, as is every hazard
\* ahead of that one; so no hazard it leaves is older than pi seconds plus
\* one frame, and the registry never holds more hazards than fit in that
\* time at more than MinInterval apart.
C18_HazardsRemoved ==
    [][~gameover =>
        /\ \A i \in 1..Len(objects) :
               (\A j \in 1..i : ~objects[j].visible) =>
                   \A k \in 1..Len(objects') :
                       Ident(objects'[k]) # Ident(objects[i])
        /\ \A k \in 1..Len(objects') :
               /\ OutOfDate(objects'[k], time') =>
                      \A j \in 1..k : ~objects'[j].visible
               /\ ~OutOfDate(objects'[k], time' - MaxStep)
        /\ ~OutOfDate([spawnTime |-> 0],
                      (Len(objects') - 1) * (MinInterval + 1) - MaxStep)]_vars

\* A running session holds a Spray that has gone out of view behind nothing
\* and a younger hazard, and a frame can follow.
C18_Witness ==
    /\ ~gameover
    /\ Len(objects) >= 2
    /\ objects[1].kind = "Spray"
    /\ ~objects[1].visible
    /\ OutOfDate(objects[1], time)
    /\ Nows # {}

\* The Running frames an airborne boat with velocity v still needs to be
\* grounded: the jump sets the velocity to -30000, every airborne frame but
\* the last adds GRAVITY to it, and the frame after the 68th addition grounds
\* the boat.
FramesToGround(v) == 69 - (v + 30000) \div GRAVITY

\* C19: an airborne boat is grounded again after a fixed number of Running
\* frames, whatever the jump key does meanwhile. The frame of the jump leaves
\* 69 frames to go; every Running frame entered airborne lowers the number
\* of frames to go by one, and the frame entered with one to go leaves the
\* boat grounded at SEA_LEVEL with velocity 0.
C19_GroundedAfterFixedFrames ==
    [][~gameover =>
        /\ (grounded /\ ~grounded') => FramesToGround(boatVelY') = 69
        /\ ~grounded =>
               /\ FramesToGround(boatVelY) \in 1..69
               /\ FramesToGround(boatVelY) > 1 =>
                      /\ ~grounded'
                      /\ FramesToGround(boatVelY') = FramesToGround(boatVelY) - 1
               /\ FramesToGround(boatVelY) = 1 =>
                      /\ grounded'
                      /\ boatPosY' = SEA_LEVEL
                      /\ boatVelY' = 0]_vars

\* A running session has an airborne boat with one frame to go, and that
\* frame can follow.
C19_Witness ==
    /\ ~gameover
    /\ ~grounded
    /\ FramesToGround(boatVelY) = 1
    /\ SteadyNows # {}

\* C20: at the end of every Running frame the registry is not empty and
\* every hazard in it carries the state update derives for the clock value
\* the frame has read; a Running frame entered with an empty registry, as
\* the first frame of the program and the first after a retry are, leaves
\* exactly one hazard, whose spawnTime is that clock value.
C20_RegistryFreshAfterRunningFrame ==
    [][~gameover =>
        /\ objects' # << >>
        /\ time' = clock'
        /\ \A i \in 1..Len(objects') :
               objects'[i] = update(objects'[i], clock')
        /\ objects = << >> =>
               /\ Len(objects') = 1
               /\ objects'[1].spawnTime = clock']_vars

\* A Running frame later than the first frame of the program has found the
\* registry empty after its cull: the only hazard is the one it has spawned
\* and updated at its clock value.
C20_Witness ==
    /\ ~gameover
    /\ Len(objects) = 1
    /\ objects[1].spawnTime = time
    /\ objects[1] = update(objects[1], clock)
    /\ time > MaxStep

====
